---------------------------- MODULE Spec2Model ----------------------------
(***************************************************************************)
(* Model of the navigation control loop of the web agent:                  *)
(*   agent/navigation_agent.py   NavigationAgent (oracle decoding, loop    *)
(*                               detection, ring of recorded actions)      *)
(*   agent/page_serializer.py    PageStateTracker (element/URL diff)       *)
(*   agent/orchestrator.py       run_task (step loop), execute_action      *)
(*   agent/browser_controller.py BrowserController (collaborator)          *)
(*                                                                         *)
(* A Python dict is a sequence of <<key, value>> pairs in insertion order; *)
(* json.dumps(..., sort_keys=True) is that sequence sorted by key.  JSON   *)
(* scalars are written as strings ("1", "-1", "Next").                     *)
(***************************************************************************)
EXTENDS Integers, Sequences, FiniteSets, Bags, TLC

VARIABLES
    pc,                   \* position of run_task / of the agent harness
    oracle,               \* the responses the oracle of this run can give
    recent_actions,       \* NavigationAgent.recent_actions
    ask,                  \* what the last decide_next_action call did
    calls,                \* number of decide_next_action calls made
    previous_elements,    \* PageStateTracker.previous_elements
    previous_url,         \* PageStateTracker.previous_url
    page,                 \* the live page of the browser collaborator
    step_count,           \* run_task: step_count
    consecutive_failures, \* run_task: consecutive_failures
    history,              \* run_task: history
    action,               \* run_task: action of the current iteration
    success,              \* run_task: success of the current iteration
    error_message,        \* run_task: error_message of the current iteration
    current_url,          \* run_task: current_url of the current iteration
    page_changes,         \* run_task: page_changes of the current iteration
    trace,                \* trace.json as written (NoTrace before)
    result,               \* what run_task returned (NoResult before)
    dispatched,           \* number of execute_action calls of this run
    browser,              \* "none", "constructed", "launched" or "closed"
    exc,                  \* message of the exception on its way to line 235
    tracked,              \* what compute_changes was handed, call by call,
                          \* since the tracker of SpecTracker was made or reset
    slept,                \* the time.sleep calls of run_task and
                          \* execute_action in the current iteration
    resolution,           \* the click_by_text or fill_input call under way
    tasks,                \* number of run_task calls started
    snapshot              \* the nodes of a page handed to
                          \* get_interactive_elements and the list returned

vars == <<pc, oracle, recent_actions, ask, calls, previous_elements,
          previous_url, page, step_count, consecutive_failures, history,
          action, success, error_message, current_url, page_changes, trace,
          result, dispatched, browser, exc, tracked, slept, resolution,
          tasks, snapshot>>

agentVars == <<recent_actions, ask, calls>>
trackerVars == <<previous_elements, previous_url>>
loopVars == <<step_count, consecutive_failures, history, action, success,
              error_message, current_url, page_changes, trace, result,
              dispatched, browser, exc, slept>>
\* what only the specifications of single components and of several tasks
\* change
aloneVars == <<tracked, resolution, tasks, snapshot>>

---------------------------------------------------------------------------
(* Bounds of the model                                                     *)

\* max_steps handed to run_task
MaxSteps == 6
\* decide_next_action calls made on one agent in SpecAgent
MaxCalls == 7
\* the number of decide_next_action calls made on the agent of SpecRing
MaxRingCalls == 12
\* the number of compute_changes calls made on the tracker of SpecTracker
MaxTracked == 3
\* the number of run_task calls made one after the other in SpecTasks
MaxTasks == 2
\* the number of nodes of a page handed to get_interactive_elements
MaxNodes == 3

---------------------------------------------------------------------------
(* Python values                                                           *)

\* Python's None
NoneVal == "<None>"

\* dict.get(key) with the default None
Get(d, k) ==
    IF \E i \in 1..Len(d) : d[i][1] = k
    THEN d[CHOOSE i \in 1..Len(d) : d[i][1] = k][2]
    ELSE NoneVal

\* key in dict
HasKey(d, k) == \E i \in 1..Len(d) : d[i][1] = k

\* dict.get(key, default)
GetOr(d, k, default) == IF HasKey(d, k) THEN Get(d, k) ELSE default

\* Python's string order on the keys the oracle's objects use
KeyOrder == <<"action", "direction", "key", "seconds", "summary",
              "target_field", "target_text", "text">>

KeyRank(k) == CHOOSE i \in 1..Len(KeyOrder) : KeyOrder[i] = k

RECURSIVE InsertPair(_, _)
InsertPair(p, s) ==
    IF s = <<>> THEN <<p>>
    ELSE IF KeyRank(p[1]) <= KeyRank(Head(s)[1]) THEN <<p>> \o s
    ELSE <<Head(s)>> \o InsertPair(p, Tail(s))

RECURSIVE SortPairs(_)
SortPairs(d) ==
    IF d = <<>> THEN <<>> ELSE InsertPair(Head(d), SortPairs(Tail(d)))

\* json.dumps(action) without sort_keys: the pairs in insertion order
DumpsUnsorted(d) == d

\* json.dumps(action, sort_keys=True)
Dumps(d) == SortPairs(d)

\* list[-n:]
LastN(s, n) == IF Len(s) <= n THEN s ELSE SubSeq(s, Len(s) - n + 1, Len(s))

\* list.count(x)
Count(s, x) == Cardinality({i \in 1..Len(s) : s[i] = x})

---------------------------------------------------------------------------
(* NavigationAgent                                                         *)

\* self.max_identical_actions
max_identical_actions == 3
\* the window of recent_actions[-5:]
LoopWindow == 5
\* the cap of len(self.recent_actions) > 10
RingCap == 10

\* Objects the oracle can answer with
ClickNext == <<<<"action", "click">>, <<"target_text", "Next">>>>
ClickNextReordered == <<<<"target_text", "Next">>, <<"action", "click">>>>
ClickNextPage == <<<<"action", "click">>, <<"target_text", "Next page">>>>
ClickNoTarget == <<<<"action", "click">>>>
NoDiscriminant == <<<<"target_text", "Next">>>>
TypeEmail == <<<<"action", "type">>, <<"target_field", "Email">>,
               <<"text", "a@b.com">>>>
PressEnter == <<<<"action", "press">>, <<"key", "Enter">>>>
ScrollDown == <<<<"action", "scroll">>, <<"direction", "down">>>>
WaitTwo == <<<<"action", "wait">>, <<"seconds", "2">>>>
WaitNegative == <<<<"action", "wait">>, <<"seconds", "-1">>>>
FinishDone == <<<<"action", "finish">>, <<"summary", "done">>>>
HoverNext == <<<<"action", "hover">>, <<"target_text", "Next">>>>

\* return {"action": "wait", "seconds": 1}
DefaultWait == <<<<"action", "wait">>, <<"seconds", "1">>>>

\* What one chat.completions.create call of the oracle yields:
\*   "error"  the call raised
\*   "empty"  message.content is empty
\*   "json"   content is the text of the JSON object obj
\*   "text"   content is not JSON; salvage tells whether the pattern
\*            \{[^}]+\} finds in it a piece that parses, and obj is that piece
ApiError == [kind |-> "error", obj |-> <<>>, salvage |-> FALSE]
EmptyContent == [kind |-> "empty", obj |-> <<>>, salvage |-> FALSE]
Json(d) == [kind |-> "json", obj |-> d, salvage |-> FALSE]
Garbage == [kind |-> "text", obj |-> <<>>, salvage |-> FALSE]
Fenced(d) == [kind |-> "text", obj |-> d, salvage |-> TRUE]

\* _detect_loop with the unsorted serialization as the key
detect_loop_unsorted(a, ring) ==
    Count(LastN(ring, LoopWindow), DumpsUnsorted(a)) >= max_identical_actions - 1

\* _detect_loop counting over the whole ring instead of its last 5 entries
detect_loop_whole_ring(a, ring) ==
    Count(ring, Dumps(a)) >= max_identical_actions - 1

\* NavigationAgent._detect_loop: is_loop
detect_loop(a, ring) ==
    Count(LastN(ring, LoopWindow), Dumps(a)) >= max_identical_actions - 1

\* the append with pop() in place of pop(0): the newest entry is dropped
RingAppendDropNewest(ring, a) ==
    LET s == Append(ring, Dumps(a))
    IN  IF Len(s) > RingCap THEN SubSeq(s, 1, Len(s) - 1) ELSE s

\* self.recent_actions.append(json.dumps(action, sort_keys=True)), capped
RingAppend(ring, a) ==
    LET s == Append(ring, Dumps(a))
    IN  IF Len(s) > RingCap THEN Tail(s) ELSE s

\* the except json.JSONDecodeError branch of decide_next_action
Salvage(r) ==
    IF r.salvage /\ HasKey(r.obj, "action") THEN r.obj ELSE DefaultWait

\* no second request to the oracle was made
NoSecond == [kind |-> "none", obj |-> <<>>, salvage |-> FALSE]

\* The outcome of one decide_next_action call: the action returned, the ring
\* afterwards, and what happened on the way (candidate: the action handed to
\* _detect_loop, when screened; second: what the second request yielded).
Outcome(a, ring, before, screened, candidate, isLoop, asked, recorded) ==
    [action |-> a, ring |-> ring, before |-> before, screened |-> screened,
     candidate |-> candidate, is_loop |-> isLoop, asked |-> asked,
     recorded |-> recorded, second |-> NoSecond]

\* an exit of decide_next_action through one of its except branches
Excepted(a, ring, screened, candidate, isLoop, asked) ==
    Outcome(a, ring, ring, screened, candidate, isLoop, asked, FALSE)

\* the exit of decide_next_action through line 226
Returned(a, ring, candidate, isLoop, asked) ==
    Outcome(a, RingAppend(ring, a), ring, TRUE, candidate, isLoop, asked, TRUE)

\* lines 207-219 with a second screening: an answer that is flagged again
\* is not accepted, the safe default is returned in its place
ReAnswerScreened(ring, cand, r2) ==
    CASE r2.kind = "error" -> Excepted(DefaultWait, ring, TRUE, cand, TRUE, 2)
      [] r2.kind = "empty" -> Returned(cand, ring, cand, TRUE, 2)
      [] r2.kind = "text"  -> Excepted(Salvage(r2), ring, TRUE, cand, TRUE, 2)
      [] OTHER             ->
            IF detect_loop(r2.obj, ring)
            THEN Returned(DefaultWait, ring, cand, TRUE, 2)
            ELSE Returned(r2.obj, ring, cand, TRUE, 2)

\* lines 207-219: what becomes of the answer r2 of the second request
ReAnswer(ring, cand, r2) ==
    CASE r2.kind = "error" -> Excepted(DefaultWait, ring, TRUE, cand, TRUE, 2)
      [] r2.kind = "empty" -> Returned(cand, ring, cand, TRUE, 2)
      [] r2.kind = "text"  -> Excepted(Salvage(r2), ring, TRUE, cand, TRUE, 2)
      [] OTHER             -> Returned(r2.obj, ring, cand, TRUE, 2)

\* the loop-breaker re-ask of decide_next_action
ReAsk(ring, cand, r2) == [ReAnswer(ring, cand, r2) EXCEPT !.second = r2]

\* NavigationAgent.decide_next_action, r1 and r2 being what the first and the
\* second request to the oracle yield
decide_next_action(ring, r1, r2) ==
    CASE r1.kind = "error" -> Excepted(DefaultWait, ring, FALSE, <<>>, FALSE, 1)
      [] r1.kind = "empty" -> Excepted(DefaultWait, ring, FALSE, <<>>, FALSE, 1)
      [] r1.kind = "text"  -> Excepted(Salvage(r1), ring, FALSE, <<>>, FALSE, 1)
      [] r1.kind = "json" /\ ~HasKey(r1.obj, "action") ->
            Excepted(DefaultWait, ring, FALSE, <<>>, FALSE, 1)
      [] OTHER ->
            IF detect_loop(r1.obj, ring)
            THEN ReAsk(ring, r1.obj, r2)
            ELSE Returned(r1.obj, ring, r1.obj, FALSE, 1)

\* whether a call answered r1 first goes on to a second request
NeedsReAsk(ring, r1) ==
    /\ r1.kind = "json"
    /\ HasKey(r1.obj, "action")
    /\ detect_loop(r1.obj, ring)

\* no decide_next_action call made yet
NoAsk == Outcome(<<>>, <<>>, <<>>, FALSE, <<>>, FALSE, 0, FALSE)

---------------------------------------------------------------------------
(* PageStateTracker.  A text is a sequence of tokens, ":" being the token  *)
(* of the key separator; an element is [type, text, input_type], with      *)
(* input_type "" when the element has none.                                *)

\* f"{elem.get('type')}:{elem.get('text', '')}:{elem.get('input_type', '')}"
element_key(e) ==
    <<e.type, ":">> \o e.text \o <<":">>
        \o (IF e.input_type = "" THEN <<>> ELSE <<e.input_type>>)

\* the place of the first ":" of s at or after place i (Len(s) + 1 if none)
RECURSIVE FindColon(_, _)
FindColon(s, i) ==
    IF i > Len(s) THEN Len(s) + 1
    ELSE IF s[i] = ":" THEN i
    ELSE FindColon(s, i + 1)

\* key.split(":", 2): at most three parts
SplitKey(key) ==
    LET c1 == FindColon(key, 1)
        c2 == FindColon(key, c1 + 1)
    IN  IF c1 > Len(key) THEN <<key>>
        ELSE IF c2 > Len(key)
             THEN <<SubSeq(key, 1, c1 - 1), SubSeq(key, c1 + 1, Len(key))>>
        ELSE <<SubSeq(key, 1, c1 - 1), SubSeq(key, c1 + 1, c2 - 1),
               SubSeq(key, c2 + 1, Len(key))>>

\* [e for e in s if keep(e)]
RECURSIVE NewOf(_, _)
NewOf(elements, new_keys) ==
    IF elements = <<>> THEN <<>>
    ELSE (IF element_key(Head(elements)) \in new_keys
          THEN <<Head(elements)>> ELSE <<>>)
         \o NewOf(Tail(elements), new_keys)

\* the descriptor lines 44-46 rebuild from a key
Descriptor(key) == [type |-> SplitKey(key)[1][1], text |-> SplitKey(key)[2]]

\* line 48 without the test for None
UrlChangedUnguarded(prev_url, url) == prev_url # url

\* line 48: url_changed
UrlChanged(prev_url, url) == prev_url # NoneVal /\ prev_url # url

\* lines 32-59: the dict returned, with the tracker's fields after the call.
\* removed_elements is a list built by iterating a set: its order is not
\* fixed, and it is kept as a bag (descriptor |-> number of occurrences).
changes_since(prev_elements, prev_url, current_elements, url) ==
    LET current_set == {element_key(current_elements[i]) :
                            i \in 1..Len(current_elements)}
        new_keys == current_set \ prev_elements
        removed_keys == prev_elements \ current_set
        new_elements == NewOf(current_elements, new_keys)
        rebuilt == {k \in removed_keys : Len(SplitKey(k)) >= 2}
        removed_elements ==
            [d \in {Descriptor(k) : k \in rebuilt} |->
                Cardinality({k \in rebuilt : Descriptor(k) = d})]
        url_changed == UrlChanged(prev_url, url)
    IN  [new_elements |-> new_elements,
         removed_elements |-> removed_elements,
         url_changed |-> url_changed,
         has_changes |-> Len(new_elements) > 0
                         \/ rebuilt # {} \/ url_changed,
         previous_elements |-> current_set,
         previous_url |-> url]

\* compute_changes without lines 51-52: the previous state is kept
compute_changes_stale(prev_elements, prev_url, current_elements, url) ==
    [changes_since(prev_elements, prev_url, current_elements, url)
        EXCEPT !.previous_elements = prev_elements, !.previous_url = prev_url]

\* compute_changes with line 51 as an update (|=): the keys of every earlier
\* call are kept
compute_changes_accumulating(prev_elements, prev_url, current_elements, url) ==
    [changes_since(prev_elements, prev_url, current_elements, url)
        EXCEPT !.previous_elements = prev_elements \cup @]

\* compute_changes with a first-call case: a tracker that has no previous
\* URL reports nothing as new
compute_changes_seeding(prev_elements, prev_url, current_elements, url) ==
    LET c == changes_since(prev_elements, prev_url, current_elements, url)
    IN  IF prev_url = NoneVal
        THEN [c EXCEPT !.new_elements = <<>>, !.has_changes = FALSE]
        ELSE c

\* PageStateTracker.compute_changes
compute_changes(prev_elements, prev_url, current_elements, url) ==
    changes_since(prev_elements, prev_url, current_elements, url)

\* get_element_summary on a list: the first 5 elements as (type, text)
\* (the texts of the model are shorter than the 30 characters kept)
get_element_summary(elements) ==
    [i \in 1..(IF Len(elements) < 5 THEN Len(elements) ELSE 5) |->
        [type |-> elements[i].type, text |-> elements[i].text]]

\* page_changes before the first Observing
NoChanges == [new_elements |-> <<>>, removed_elements |-> <<>>,
              url_changed |-> FALSE, has_changes |-> FALSE,
              previous_elements |-> {}, previous_url |-> NoneVal]

---------------------------------------------------------------------------
(* The browser collaborator's page                                         *)

EmailInput == [type |-> "input", text |-> <<"Email">>, input_type |-> "email"]
PasswordInput ==
    [type |-> "input", text |-> <<"Password">>, input_type |-> "password"]
NextButton == [type |-> "button", text |-> <<"Next">>, input_type |-> ""]
NoteLink == [type |-> "link", text |-> <<"Note", ":", "1">>, input_type |-> ""]

LoginPage == [url |-> "/login", elements |-> <<EmailInput, NextButton>>]
PasswordPage ==
    [url |-> "/login", elements |-> <<EmailInput, PasswordInput, NextButton>>]
HomePage == [url |-> "/home", elements |-> <<NoteLink>>]

\* where a click or a key press that succeeded can leave the browser
Navigations(p) ==
    CASE p = LoginPage    -> {LoginPage, PasswordPage}
      [] p = PasswordPage -> {PasswordPage, HomePage}
      [] OTHER            -> {p}

\* BrowserController.get_interactive_elements
get_interactive_elements(p) == p.elements

\* BrowserController.get_current_url
get_current_url(p) == p.url

---------------------------------------------------------------------------
(* execute_action                                                          *)

\* max_consecutive_failures = 5
max_consecutive_failures == 5

\* not x, for the values an action's field can hold
Falsy(v) == v \in {NoneVal, ""}

\* whether time.sleep(v) returns: v is a number that is not negative
SleepAccepts(v) == v \in {"0", "1", "2"}

\* the browser call execute_action makes for the action ("none": no call)
BrowserCall(a) ==
    LET action_type == Get(a, "action")
    IN  CASE action_type = "click" /\ ~Falsy(Get(a, "target_text")) -> "click_by_text"
          [] action_type = "type" /\ ~Falsy(Get(a, "target_field"))
                /\ Get(a, "text") # NoneVal -> "fill_input"
          [] action_type = "press" /\ ~Falsy(Get(a, "key")) -> "press_key"
          [] action_type = "scroll" -> "scroll"
          [] OTHER -> "none"

\* execute_action: the message of the exception it raises, NoneVal when it
\* returns; browser_ok tells whether the browser call it makes succeeds
execute_action(a, browser_ok) ==
    LET action_type == Get(a, "action")
    IN  CASE action_type = "click" ->
               IF Falsy(Get(a, "target_text"))
               THEN "Click action requires 'target_text'"
               ELSE IF browser_ok THEN NoneVal
               ELSE "Could not find element with text"
          [] action_type = "type" ->
               IF Falsy(Get(a, "target_field")) \/ Get(a, "text") = NoneVal
               THEN "Type action requires 'target_field' and 'text'"
               ELSE IF browser_ok THEN NoneVal
               ELSE "Could not find input with label/placeholder"
          [] action_type = "press" ->
               IF Falsy(Get(a, "key")) THEN "Press action requires 'key'"
               ELSE IF browser_ok THEN NoneVal ELSE "keyboard.press failed"
          [] action_type = "scroll" ->
               IF browser_ok THEN NoneVal ELSE "evaluate failed"
          [] action_type = "wait" ->
               IF SleepAccepts(GetOr(a, "seconds", "1")) THEN NoneVal
               ELSE "sleep length must be non-negative"
          [] action_type = "finish" -> NoneVal
          [] OTHER -> "Unknown action type"

---------------------------------------------------------------------------
(* run_task                                                                *)

\* the oracle's repertoires: Init picks the set of answers the oracle of the
\* task gives, and every request of the run draws its answer from that set
OracleMenus ==
    {{Json(FinishDone), Json(ClickNext)},
     {Json(FinishDone), Json(PressEnter)},
     {Json(FinishDone), Json(WaitTwo)},
     {Json(FinishDone), Garbage},
     {Json(ClickNext), Json(ClickNoTarget)},
     {Json(ClickNext), Garbage},
     {Json(TypeEmail), Json(PressEnter)},
     {Json(ScrollDown), Json(HoverNext)},
     {Json(HoverNext), Json(NoDiscriminant)},
     {Json(WaitTwo), Json(WaitNegative)},
     {Json(WaitNegative), Json(ClickNext)}}

NoTrace == [written |-> FALSE, total_steps |-> 0, task_completed |-> FALSE,
            steps |-> <<>>]

\* nothing returned yet; a result is the set of its keys with the values of
\* "success", "total_steps" (-1 when absent) and "error" (NoneVal when absent)
NoResult == [keys |-> {}, success |-> FALSE, total_steps |-> -1,
             error |-> NoneVal]

\* the four entries of the dict compute_changes returns
Diff(c) == [new_elements |-> c.new_elements,
            removed_elements |-> c.removed_elements,
            url_changed |-> c.url_changed, has_changes |-> c.has_changes]

\* last_error = None.  An exception of a strategy is told by the attempt
\* that raised it; placeholder: it is the "Not a password" of strategy 7
NoError == [strategy |-> 0, pass |-> 0, placeholder |-> FALSE]

\* no click_by_text or fill_input call made
NoResolution ==
    [role |-> "none", label |-> <<>>, retry |-> FALSE, on |-> {}, pass |-> 0,
     next |-> 0, attempts |-> <<>>, status |-> "none", error |-> NoneVal,
     last_error |-> NoError]

\* no get_interactive_elements call made, no page handed to it
NoSnapshot == [nodes |-> <<>>, taken |-> FALSE, elements |-> <<>>]

\* the state before run_task (at = "start") or before the first call on a
\* fresh agent (at = "agent"), the oracle answering from one of menus
InitWith(at, menus) ==
    /\ pc = at
    /\ oracle \in menus
    /\ recent_actions = <<>>
    /\ ask = NoAsk
    /\ calls = 0
    /\ previous_elements = {}
    /\ previous_url = NoneVal
    /\ page = LoginPage
    /\ step_count = 0
    /\ consecutive_failures = 0
    /\ history = <<>>
    /\ action = <<>>
    /\ success = FALSE
    /\ error_message = NoneVal
    /\ current_url = NoneVal
    /\ page_changes = Diff(NoChanges)
    /\ trace = NoTrace
    /\ result = NoResult
    /\ dispatched = 0
    /\ browser = "none"
    /\ exc = NoneVal
    /\ tracked = <<>>
    /\ slept = <<>>
    /\ resolution = NoResolution
    /\ tasks = IF at = "start" THEN 1 ELSE 0
    /\ snapshot = NoSnapshot

Init == InitWith("start", OracleMenus)

\* an agent that starts on the ring of recorded actions it finds
StaleRing == recent_actions

\* NavigationAgent.__init__: self.recent_actions = []
FreshRing == <<>>

\* lines 44-62: the collaborators are constructed outside the try
Construct ==
    /\ pc = "start"
    /\ \E built \in {"all", "browser_raises", "agent_raises"} :
          CASE built = "browser_raises" ->
                 /\ pc' = "raised"
                 /\ exc' = "sync_playwright().start() failed"
                 /\ UNCHANGED browser
            [] built = "agent_raises" ->
                 /\ pc' = "raised"
                 /\ exc' = "OPENAI_API_KEY not found in environment variables"
                 /\ browser' = "constructed"
            [] OTHER ->
                 /\ pc' = "init"
                 /\ browser' = "constructed"
                 /\ UNCHANGED exc
    /\ recent_actions' = FreshRing
    /\ previous_elements' = {}
    /\ previous_url' = NoneVal
    /\ history' = <<>>
    /\ step_count' = 0
    /\ consecutive_failures' = 0
    /\ UNCHANGED <<oracle, aloneVars, slept, ask, calls, page, action, success, error_message,
                   current_url, page_changes, trace, result, dispatched>>

\* lines 65-79: launch, goto, wait, initial screenshot, seeding the tracker
InitPhase ==
    /\ pc = "init"
    /\ \E went \in {"ok", "launch_raises", "screenshot_raises"} :
          CASE went = "launch_raises" ->
                 /\ pc' = "fatal"
                 /\ exc' = "launch failed"
                 /\ UNCHANGED <<browser, previous_elements, previous_url>>
            [] went = "screenshot_raises" ->
                 /\ pc' = "fatal"
                 /\ exc' = "screenshot failed"
                 /\ browser' = "launched"
                 /\ UNCHANGED <<previous_elements, previous_url>>
            [] OTHER ->
                 LET c == compute_changes(previous_elements, previous_url,
                              get_interactive_elements(page),
                              get_current_url(page))
                 IN  /\ pc' = "observe"
                     /\ browser' = "launched"
                     /\ previous_elements' = c.previous_elements
                     /\ previous_url' = c.previous_url
                     /\ UNCHANGED exc
    /\ UNCHANGED <<oracle, aloneVars, slept, recent_actions, ask, calls, page, step_count,
                   consecutive_failures, history, action, success,
                   error_message, current_url, page_changes, trace, result,
                   dispatched>>

\* the guard of the step loop with an off-by-one
LoopGuardInclusive == step_count <= MaxSteps

\* line 84: while step_count < max_steps
LoopGuard == step_count < MaxSteps

\* lines 84-112: the loop test, then Observing
Observe ==
    /\ pc = "observe"
    /\ IF LoopGuard
       THEN LET c == compute_changes(previous_elements, previous_url,
                         get_interactive_elements(page), get_current_url(page))
            IN  /\ pc' = "decide"
                /\ current_url' = get_current_url(page)
                /\ page_changes' = Diff(c)
                /\ previous_elements' = c.previous_elements
                /\ previous_url' = c.previous_url
                /\ slept' = <<>>
       ELSE /\ pc' = "ending"
            /\ UNCHANGED <<current_url, page_changes, previous_elements,
                           previous_url, slept>>
    /\ UNCHANGED <<oracle, aloneVars, recent_actions, ask, calls, page, step_count,
                   consecutive_failures, history, action, success,
                   error_message, trace, result, dispatched, browser, exc>>

\* a counter that an accepted second answer of the oracle resets
FailuresAfterDecidingReset(o) ==
    IF o.asked = 2 /\ o.recorded THEN 0 ELSE consecutive_failures

\* lines 114-122: Deciding assigns action and nothing else of the loop
FailuresAfterDeciding(o) == consecutive_failures

\* lines 114-125: Deciding, and the test for finish
Decide ==
    /\ pc = "decide"
    /\ \E r1 \in oracle :
       \E r2 \in (IF NeedsReAsk(recent_actions, r1) THEN oracle ELSE {r1}) :
          LET o == decide_next_action(recent_actions, r1, r2)
          IN  /\ action' = o.action
              /\ recent_actions' = o.ring
              /\ ask' = o
              /\ consecutive_failures' = FailuresAfterDeciding(o)
              /\ pc' = IF Get(o.action, "action") = "finish"
                       THEN "finishing" ELSE "executing"
    /\ calls' = calls + 1
    /\ UNCHANGED <<oracle, aloneVars, slept, previous_elements, previous_url, page, step_count,
                   history, success, error_message,
                   current_url, page_changes, trace, result, dispatched,
                   browser, exc>>

\* lines 126-130: the final screenshot, then break
Finishing ==
    /\ pc = "finishing"
    /\ \E shot_ok \in BOOLEAN :
          IF shot_ok
          THEN pc' = "ending" /\ UNCHANGED exc
          ELSE pc' = "fatal" /\ exc' = "screenshot failed"
    /\ UNCHANGED <<oracle, aloneVars, slept, recent_actions, ask, calls, previous_elements,
                   previous_url, page, step_count, consecutive_failures,
                   history, action, success, error_message, current_url,
                   page_changes, trace, result, dispatched, browser>>

\* lines 281-284 of execute_action: the sleep of a wait action, which is
\* made unless time.sleep rejects the length
DispatchSleeps(a) ==
    IF Get(a, "action") = "wait" /\ SleepAccepts(GetOr(a, "seconds", "1"))
    THEN <<[by |-> "execute_action", seconds |-> GetOr(a, "seconds", "1")]>>
    ELSE <<>>

\* lines 154-163 of run_task: the sleep of Settling
SettleSleeps(a) ==
    CASE Get(a, "action") = "wait" ->
            IF SleepAccepts(GetOr(a, "seconds", "1"))
            THEN <<[by |-> "run_task", seconds |-> GetOr(a, "seconds", "1")]>>
            ELSE <<>>
      [] Get(a, "action") \in {"type", "click", "press"} ->
            <<[by |-> "run_task", seconds |-> "0.5"]>>
      [] OTHER -> <<>>

\* the counter left as it is by a step that succeeds
FailuresAfterNoReset(ok) ==
    IF ok THEN consecutive_failures ELSE consecutive_failures + 1

\* lines 144 and 148: consecutive_failures after execute_action returned
\* (ok) or raised
FailuresAfter(ok) == IF ok THEN 0 ELSE consecutive_failures + 1

\* lines 132-151: the before screenshot, then Executing
Executing ==
    /\ pc = "executing"
    /\ \E shots \in {"ok", "before_raises", "error_raises"} :
       \E browser_ok \in (IF BrowserCall(action) = "none"
                          THEN {TRUE} ELSE BOOLEAN) :
          LET err == execute_action(action, browser_ok)
          IN  IF shots = "before_raises"
              THEN /\ pc' = "fatal"
                   /\ exc' = "screenshot failed"
                   /\ UNCHANGED <<success, error_message, dispatched, page,
                                  consecutive_failures, slept>>
              ELSE /\ dispatched' = dispatched + 1
                   /\ slept' = slept \o DispatchSleeps(action)
                   /\ IF err = NoneVal
                      THEN /\ success' = TRUE
                           /\ error_message' = NoneVal
                           /\ consecutive_failures' = FailuresAfter(TRUE)
                           /\ page' \in
                                (IF BrowserCall(action)
                                        \in {"click_by_text", "press_key"}
                                 THEN Navigations(page) ELSE {page})
                           /\ pc' = "settling"
                           /\ UNCHANGED exc
                      ELSE /\ success' = FALSE
                           /\ error_message' = err
                           /\ consecutive_failures' = FailuresAfter(FALSE)
                           /\ UNCHANGED page
                           /\ IF shots = "error_raises"
                              THEN pc' = "fatal" /\ exc' = "screenshot failed"
                              ELSE pc' = "settling" /\ UNCHANGED exc
    /\ UNCHANGED <<oracle, aloneVars, recent_actions, ask, calls, previous_elements,
                   previous_url, step_count, history, action, current_url,
                   page_changes, trace, result, browser>>

\* lines 153-169: Settling, then the after screenshot
Settling ==
    /\ pc = "settling"
    /\ \E shot_ok \in BOOLEAN :
          IF /\ Get(action, "action") = "wait"
             /\ ~SleepAccepts(GetOr(action, "seconds", "1"))
          THEN pc' = "fatal" /\ exc' = "sleep length must be non-negative"
          ELSE IF shot_ok
          THEN pc' = "logging" /\ UNCHANGED exc
          ELSE pc' = "fatal" /\ exc' = "screenshot failed"
    /\ slept' = slept \o SettleSleeps(action)
    /\ UNCHANGED <<oracle, aloneVars, recent_actions, ask, calls, previous_elements,
                   previous_url, page, step_count, consecutive_failures,
                   history, action, success, error_message, current_url,
                   page_changes, trace, result, dispatched, browser>>

\* step_data with steps numbered from 1
StepDataFromOne(post) ==
    [step |-> step_count + 1,
     url |-> current_url,
     url_after |-> get_current_url(page),
     action |-> action,
     success |-> success,
     error |-> error_message,
     elements_added |-> get_element_summary(post.new_elements),
     elements_removed |-> post.removed_elements]

\* step_data with "url" read from the browser at line 178 instead of taken
\* from the current_url of line 90
StepDataUrlAtLogging(post) ==
    [step |-> step_count,
     url |-> get_current_url(page),
     url_after |-> get_current_url(page),
     action |-> action,
     success |-> success,
     error |-> error_message,
     elements_added |-> get_element_summary(post.new_elements),
     elements_removed |-> post.removed_elements]

\* lines 176-191: step_data
StepData(post) ==
    [step |-> step_count,
     url |-> current_url,
     url_after |-> get_current_url(page),
     action |-> action,
     success |-> success,
     error |-> error_message,
     elements_added |-> get_element_summary(post.new_elements),
     \* the summary of at most 5 of the removed elements, which are fewer
     \* than 5 on the pages of the model
     elements_removed |-> post.removed_elements]

\* the failure ceiling tested with > instead of >=
FailureCeilingStrict == consecutive_failures > max_consecutive_failures

\* line 196: consecutive_failures >= max_consecutive_failures
FailureCeiling == consecutive_failures >= max_consecutive_failures

\* lines 171-200: Logging, the failure ceiling, the step index
Logging ==
    /\ pc = "logging"
    /\ LET post == compute_changes(previous_elements, previous_url,
                       get_interactive_elements(page), get_current_url(page))
       IN  /\ previous_elements' = post.previous_elements
           /\ previous_url' = post.previous_url
           /\ history' = Append(history, StepData(post))
    /\ IF FailureCeiling
       THEN pc' = "ending" /\ UNCHANGED step_count
       ELSE pc' = "observe" /\ step_count' = step_count + 1
    /\ UNCHANGED <<oracle, aloneVars, slept, recent_actions, ask, calls, page,
                   consecutive_failures, action, success, error_message,
                   current_url, page_changes, trace, result, dispatched,
                   browser, exc>>

\* completion judged from the action the loop ended on
task_completed_by_last_action == Get(action, "action") = "finish"

\* lines 203-206: any(step action is finish for step in history)
task_completed ==
    \E i \in 1..Len(history) : Get(history[i].action, "action") = "finish"

\* a trace saved without the step logged last
trace_data_short ==
    [written |-> TRUE, total_steps |-> step_count,
     task_completed |-> task_completed,
     steps |-> SubSeq(history, 1, Len(history) - 1)]

\* lines 209-218: trace_data
trace_data ==
    [written |-> TRUE, total_steps |-> step_count,
     task_completed |-> task_completed, steps |-> history]

\* lines 202-233 and 245-247: the trace is written, the summary returned and
\* the browser closed
Ending ==
    /\ pc = "ending"
    /\ trace' = trace_data
    /\ result' = [keys |-> {"success", "output_dir", "total_steps",
                            "trace_file"},
                  success |-> task_completed, total_steps |-> step_count,
                  error |-> NoneVal]
    /\ browser' = "closed"
    /\ pc' = "done"
    /\ UNCHANGED <<oracle, aloneVars, slept, recent_actions, ask, calls, previous_elements,
                   previous_url, page, step_count, consecutive_failures,
                   history, action, success, error_message, current_url,
                   page_changes, dispatched, exc>>

\* lines 235-247: except Exception, then the browser is closed
Fatal ==
    /\ pc = "fatal"
    /\ result' = [keys |-> {"success", "error", "output_dir"},
                  success |-> FALSE, total_steps |-> -1, error |-> exc]
    /\ browser' = "closed"
    /\ pc' = "done"
    /\ UNCHANGED <<oracle, aloneVars, slept, recent_actions, ask, calls, previous_elements,
                   previous_url, page, step_count, consecutive_failures,
                   history, action, success, error_message, current_url,
                   page_changes, trace, dispatched, exc>>

Next ==
    \/ Construct
    \/ InitPhase
    \/ Observe
    \/ Decide
    \/ Finishing
    \/ Executing
    \/ Settling
    \/ Logging
    \/ Ending
    \/ Fatal

Spec == Init /\ [][Next]_vars

\* run_task is one sequential control flow: while a step is left to take
\* and every browser and oracle call returns, the next step is taken
FairMenus ==
    {{Json(FinishDone), Json(ClickNext)},
     {Json(WaitTwo), Json(WaitNegative)},
     {Json(ScrollDown), Json(HoverNext)}}

InitFair == InitWith("start", FairMenus)

FairSpec == InitFair /\ [][Next]_vars /\ WF_vars(Next)

\* run_task called again once the call before has returned or raised.  The
\* locals and the page of the new call are new; the agent and the tracker
\* of the call before are left as they are until Construct binds the names
\* to the objects of the new call, and ask keeps the last request made.
CallAgain ==
    /\ pc \in {"done", "raised"}
    /\ tasks < MaxTasks
    /\ tasks' = tasks + 1
    /\ pc' = "start"
    /\ calls' = 0
    /\ page' = LoginPage
    /\ action' = <<>>
    /\ success' = FALSE
    /\ error_message' = NoneVal
    /\ current_url' = NoneVal
    /\ page_changes' = Diff(NoChanges)
    /\ trace' = NoTrace
    /\ result' = NoResult
    /\ dispatched' = 0
    /\ browser' = "none"
    /\ exc' = NoneVal
    /\ slept' = <<>>
    /\ UNCHANGED <<oracle, tracked, resolution, snapshot, recent_actions, ask,
                   previous_elements, previous_url, step_count,
                   consecutive_failures, history>>

NextTasks ==
    \/ Next
    \/ CallAgain

SpecTasks == InitFair /\ [][NextTasks]_vars

---------------------------------------------------------------------------
(* One NavigationAgent driven on its own: decide_next_action called up to  *)
(* MaxCalls times, reset_loop_detection in between                         *)

AgentResponses ==
    {Json(ClickNext), Json(ClickNextReordered), Json(ClickNextPage),
     Json(NoDiscriminant), Fenced(ClickNext), Fenced(NoDiscriminant),
     Garbage, EmptyContent, ApiError}

InitAgent == InitWith("agent", {AgentResponses})

\* one call of decide_next_action
AgentDecide ==
    /\ pc = "agent"
    /\ calls < MaxCalls
    /\ \E r1 \in oracle :
       \E r2 \in (IF NeedsReAsk(recent_actions, r1) THEN oracle ELSE {r1}) :
          LET o == decide_next_action(recent_actions, r1, r2)
          IN  /\ recent_actions' = o.ring
              /\ ask' = o
    /\ calls' = calls + 1
    /\ UNCHANGED <<pc, oracle, aloneVars, trackerVars, page, loopVars>>

\* NavigationAgent.reset_loop_detection
AgentReset ==
    /\ pc = "agent"
    /\ recent_actions # <<>>
    /\ recent_actions' = <<>>
    /\ UNCHANGED <<pc, oracle, aloneVars, ask, calls, trackerVars, page, loopVars>>

NextAgent ==
    \/ AgentDecide
    \/ AgentReset

SpecAgent == InitAgent /\ [][NextAgent]_vars

\* A NavigationAgent asked often enough to fill its ring: an oracle with two
\* answers, so that the ring's entries differ and their order shows
RingResponses == {Json(ClickNext), Json(PressEnter)}

InitRing == InitWith("ring", {RingResponses})

\* one call of decide_next_action
RingDecide ==
    /\ pc = "ring"
    /\ calls < MaxRingCalls
    /\ \E r1 \in oracle :
       \E r2 \in (IF NeedsReAsk(recent_actions, r1) THEN oracle ELSE {r1}) :
          LET o == decide_next_action(recent_actions, r1, r2)
          IN  /\ recent_actions' = o.ring
              /\ ask' = o
    /\ calls' = calls + 1
    /\ UNCHANGED <<pc, oracle, aloneVars, trackerVars, page, loopVars>>

SpecRing == InitRing /\ [][RingDecide]_vars

---------------------------------------------------------------------------
(* A PageStateTracker driven alone: compute_changes on element lists and   *)
(* URLs of the caller's choice, and reset.                                 *)

EmailText == [type |-> "input", text |-> <<"Email">>, input_type |-> "text"]
NoteOnly == [type |-> "link", text |-> <<"Note">>, input_type |-> ""]

\* the element lists handed to compute_changes: empty, the pages of the
\* browser above, an input that differs from another in its input_type only,
\* an element listed twice, texts with and without the ":" of the key
TrackedElements ==
    {<<>>, LoginPage.elements, PasswordPage.elements, HomePage.elements,
     <<EmailText, NextButton>>, <<NextButton, EmailInput, NextButton>>,
     <<NoteOnly>>, <<NoteLink, NoteOnly>>}

TrackedUrls == {"/login", "/home"}

InitTracker == InitWith("tracker", {{}})

\* one call of compute_changes
TrackerCompute ==
    /\ pc = "tracker"
    /\ calls < MaxTracked
    /\ \E elements \in TrackedElements, url \in TrackedUrls :
          LET c == compute_changes(previous_elements, previous_url,
                                   elements, url)
          IN  /\ page_changes' = Diff(c)
              /\ previous_elements' = c.previous_elements
              /\ previous_url' = c.previous_url
              /\ tracked' = Append(tracked, [elements |-> elements, url |-> url])
    /\ calls' = calls + 1
    /\ UNCHANGED <<pc, oracle, slept, resolution, tasks, snapshot, recent_actions, ask, page, step_count,
                   consecutive_failures, history, action, success,
                   error_message, current_url, trace, result, dispatched,
                   browser, exc>>

\* PageStateTracker.reset
TrackerReset ==
    /\ pc = "tracker"
    /\ tracked # <<>>
    /\ previous_elements' = {}
    /\ previous_url' = NoneVal
    /\ tracked' = <<>>
    /\ UNCHANGED <<pc, oracle, resolution, tasks, snapshot, agentVars, page, loopVars>>

NextTracker ==
    \/ TrackerCompute
    \/ TrackerReset

SpecTracker == InitTracker /\ [][NextTracker]_vars

---------------------------------------------------------------------------
(* BrowserController.click_by_text and fill_input driven alone: one call   *)
(* after the other, each strategy attempt a step.  What a locator finds    *)
(* and whether the interaction then works is the browser's answer: an      *)
(* element of the page tells under which text it is found ("label") and by *)
(* which of the strategies 1-6 ("by"); any attempt can raise.              *)

\* len(strategies) of click_by_text and of fill_input
ClickStrategies == 6
FillStrategies == 7
\* strategies[:3] and strategies[:4]
ClickRetried == 3
FillRetried == 4

OkButton == [id |-> "ok", kind |-> "button", input_type |-> "",
             label |-> <<"OK">>, by |-> {1, 2, 3, 5}, visible |-> TRUE]
CloseIcon == [id |-> "close", kind |-> "button", input_type |-> "",
              label |-> <<"Close">>, by |-> {6}, visible |-> TRUE]
EmailField == [id |-> "email", kind |-> "input", input_type |-> "email",
               label |-> <<"Email">>, by |-> {1, 3, 6}, visible |-> TRUE]
PasswordField == [id |-> "password", kind |-> "input",
                  input_type |-> "password", label |-> <<"Password">>,
                  by |-> {1, 6}, visible |-> TRUE]
HiddenPasswordField == [id |-> "hidden", kind |-> "input",
                        input_type |-> "password", label |-> <<"Confirm">>,
                        by |-> {5}, visible |-> FALSE]
PasscodeField == [id |-> "passcode", kind |-> "input",
                  input_type |-> "password", label |-> <<"Passcode">>,
                  by |-> {1, 6}, visible |-> TRUE]

ResolverPages ==
    {{OkButton, CloseIcon, EmailField},
     {OkButton, EmailField, PasswordField, HiddenPasswordField},
     {EmailField, PasscodeField}}

\* the texts click_by_text and the labels fill_input are called with
ClickTexts == {<<"OK">>, <<"Close">>, <<"Missing">>}
FillLabels == {<<"Email">>, <<"PASSWORD">>, <<"Your", "password">>,
               <<"Passcode">>}

\* str.lower() on the words of the labels
Lower(word) ==
    CASE word = "PASSWORD" -> "password"
      [] word = "Password" -> "password"
      [] word = "Passcode" -> "passcode"
      [] word = "Email"    -> "email"
      [] word = "Your"     -> "your"
      [] OTHER             -> word

\* 'password' in label.lower()
ImpliesPassword(label) == \E i \in 1..Len(label) : Lower(label[i]) = "password"

Strategies(role) == IF role = "click" THEN ClickStrategies ELSE FillStrategies

\* the second pass going over all the strategies again
RetriedAll(role) == Strategies(role)

\* the strategies of the second pass
Retried(role) == IF role = "click" THEN ClickRetried ELSE FillRetried

\* strategy 7 of fill_input without its test of the label
LocatedAnyLabel(role, k, label, on) ==
    CASE role = "click" ->
            {e \in on : e.kind # "input" /\ e.label = label /\ k \in e.by}
      [] role = "fill" /\ k < 7 ->
            {e \in on : e.kind = "input" /\ e.label = label /\ k \in e.by}
      [] OTHER ->
            {e \in on : e.kind = "input" /\ e.input_type = "password"
                           /\ e.visible}

\* the elements the locator of strategy k finds on the page
Located(role, k, label, on) ==
    CASE role = "click" ->
            {e \in on : e.kind # "input" /\ e.label = label /\ k \in e.by}
      [] role = "fill" /\ k < 7 ->
            {e \in on : e.kind = "input" /\ e.label = label /\ k \in e.by}
      [] OTHER ->
            IF ImpliesPassword(label)
            THEN {e \in on : e.kind = "input" /\ e.input_type = "password"
                                /\ e.visible}
            ELSE {}

\* strategy 7 of fill_input raises Exception("Not a password") in place of
\* looking at the page
Skipped(r) == r.role = "fill" /\ r.next = 7 /\ ~ImpliesPassword(r.label)

\* lines 252, 258 and 305, 310: last_error is assigned by the except clause
\* of the first loop; the bare except of the second loop assigns nothing
LastError(r, outcome) ==
    IF outcome = "raises" /\ r.pass = 1
    THEN [strategy |-> r.next, pass |-> r.pass, placeholder |-> Skipped(r)]
    ELSE r.last_error

\* a cascade in which a strategy that worked is followed by the next one
AfterAttemptGoesOn(r, outcome) ==
    LET k == r.next
        last == IF r.pass = 1 THEN Strategies(r.role) ELSE Retried(r.role)
        logged == [r EXCEPT !.attempts = Append(@,
                      [strategy |-> k, pass |-> r.pass,
                       ok |-> outcome # "raises",
                       touched |-> IF outcome = "raises" THEN "none"
                                   ELSE outcome,
                       queried |-> ~Skipped(r)]),
                            !.last_error = LastError(r, outcome)]
    IN  IF k < last THEN [logged EXCEPT !.next = k + 1]
        ELSE IF outcome # "raises" THEN [logged EXCEPT !.status = "returned"]
        ELSE IF r.pass = 1 /\ r.retry
             THEN [logged EXCEPT !.pass = 2, !.next = 1]
        ELSE [logged EXCEPT !.status = "raised",
                            !.error = "Could not find"]

\* the call after strategy r.next was attempted with the given outcome
\* ("raises", or the id of the element clicked or filled):
\* the loops of lines 252-272 and 305-325
AfterAttempt(r, outcome) ==
    LET k == r.next
        last == IF r.pass = 1 THEN Strategies(r.role) ELSE Retried(r.role)
        logged == [r EXCEPT !.attempts = Append(@,
                      [strategy |-> k, pass |-> r.pass,
                       ok |-> outcome # "raises",
                       touched |-> IF outcome = "raises" THEN "none"
                                   ELSE outcome,
                       queried |-> ~Skipped(r)]),
                            !.last_error = LastError(r, outcome)]
    IN  IF outcome # "raises" THEN [logged EXCEPT !.status = "returned"]
        ELSE IF k < last THEN [logged EXCEPT !.next = k + 1]
        ELSE IF r.pass = 1 /\ r.retry
             THEN [logged EXCEPT !.pass = 2, !.next = 1]
        ELSE [logged EXCEPT !.status = "raised",
                            !.error = "Could not find"]

InitResolver == InitWith("resolver", {{}})

\* click_by_text(text, retry) or fill_input(label, value, retry) is called:
\* lines 234-235 and 285-286 raise when no page was launched
ResolveCall ==
    /\ pc = "resolver"
    /\ resolution.status # "running"
    /\ \E role \in {"click", "fill"}, retry \in BOOLEAN,
          launched \in BOOLEAN, on \in ResolverPages :
       \E label \in (IF role = "click" THEN ClickTexts ELSE FillLabels) :
          resolution' =
              [role |-> role, label |-> label, retry |-> retry, on |-> on,
               pass |-> 1, next |-> 1, attempts |-> <<>>,
               status |-> IF launched THEN "running" ELSE "raised",
               error |-> IF launched THEN NoneVal
                         ELSE "Browser not launched",
               last_error |-> NoError]
    /\ UNCHANGED <<pc, oracle, tracked, tasks, snapshot, agentVars, trackerVars, page,
                   loopVars>>

\* one strategy is attempted
ResolveAttempt ==
    /\ pc = "resolver"
    /\ resolution.status = "running"
    /\ \E outcome \in {"raises"} \cup
                       {e.id : e \in Located(resolution.role, resolution.next,
                                  resolution.label, resolution.on)} :
          resolution' = AfterAttempt(resolution, outcome)
    /\ UNCHANGED <<pc, oracle, tracked, tasks, snapshot, agentVars, trackerVars, page,
                   loopVars>>

NextResolver ==
    \/ ResolveCall
    \/ ResolveAttempt

SpecResolver == InitResolver /\ [][NextResolver]_vars

---------------------------------------------------------------------------
(* BrowserController.get_interactive_elements driven alone on pages of up  *)
(* to MaxNodes nodes.  A node is [tag, text, input_type, visible]: tag is   *)
(* the selector group that finds it, text what the code reads as its text  *)
(* (<<>> when every attribute tried is empty), input_type the type         *)
(* attribute or "text".  A node whose reading raises is skipped by the     *)
(* inner `except: pass` before it is added to seen_texts: it is a page     *)
(* without the node.                                                       *)

BlankPassword ==
    [tag |-> "input", text |-> <<>>, input_type |-> "password",
     visible |-> TRUE]
NamedPassword ==
    [tag |-> "input", text |-> <<"[password field]">>,
     input_type |-> "password", visible |-> TRUE]
EmailNode ==
    [tag |-> "input", text |-> <<"Email">>, input_type |-> "email",
     visible |-> TRUE]
HiddenToken ==
    [tag |-> "input", text |-> <<"Token">>, input_type |-> "hidden",
     visible |-> FALSE]
NextNode ==
    [tag |-> "button", text |-> <<"Next">>, input_type |-> "",
     visible |-> TRUE]
NextAnchor ==
    [tag |-> "link", text |-> <<"Next">>, input_type |-> "",
     visible |-> TRUE]
SortSelect ==
    [tag |-> "select", text |-> <<"Sort">>, input_type |-> "",
     visible |-> TRUE]

Nodes == {BlankPassword, NamedPassword, EmailNode, HiddenToken, NextNode,
          NextAnchor, SortSelect}

\* the pages: the nodes in document order
NodeLists == UNION {[1..n -> Nodes] : n \in 0..MaxNodes}

\* lines 88-89: elements = [], seen_texts = set()
NothingSeen == [elements |-> <<>>, seen_texts |-> {}]

\* lines 107-113, 160-162 and 173-175: a button, link or select is added
\* under its text unless the text is empty or seen
AddByText(st, node) ==
    IF node.visible /\ node.text # <<>> /\ node.text \notin st.seen_texts
    THEN [elements |-> Append(st.elements,
                          [type |-> node.tag, text |-> node.text,
                           input_type |-> ""]),
          seen_texts |-> st.seen_texts \cup {node.text}]
    ELSE st

\* lines 120-150: an input is added under f"{text}:{input_type}"; one with
\* no text is kept when it is a password field, as "[password field]"
AddInput(st, node) ==
    LET is_password == node.input_type = "password"
        elem_key == node.text \o <<":", node.input_type>>
    IN  IF ~node.visible /\ ~is_password THEN st
        ELSE IF ~(node.text # <<>> \/ is_password) THEN st
        ELSE IF elem_key \in st.seen_texts THEN st
        ELSE [elements |-> Append(st.elements,
                  [type |-> "input",
                   text |-> IF node.text # <<>> THEN node.text
                            ELSE <<"[" \o node.input_type \o " field]">>,
                   input_type |-> node.input_type]),
              seen_texts |-> st.seen_texts \cup {elem_key}]

\* one of the four loops of lines 92-177: the nodes of one selector group,
\* in document order
RECURSIVE Collect(_, _, _, _)
Collect(nodes, i, tag, st) ==
    IF i > Len(nodes) THEN st
    ELSE Collect(nodes, i + 1, tag,
             IF nodes[i].tag # tag THEN st
             ELSE IF tag = "input" THEN AddInput(st, nodes[i])
             ELSE AddByText(st, nodes[i]))

\* lines 88-183: buttons, then inputs, then links, then selects
interactive_elements(nodes) ==
    Collect(nodes, 1, "select",
        Collect(nodes, 1, "link",
            Collect(nodes, 1, "input",
                Collect(nodes, 1, "button", NothingSeen)))).elements

InitExtract == InitWith("extract", {{}})

\* a page is loaded in the browser
LoadPage ==
    /\ pc = "extract"
    /\ \E nodes \in NodeLists :
          snapshot' = [nodes |-> nodes, taken |-> FALSE, elements |-> <<>>]
    /\ UNCHANGED <<pc, oracle, tracked, resolution, tasks, agentVars,
                   trackerVars, page, loopVars>>

\* get_interactive_elements is called on the page
TakeSnapshot ==
    /\ pc = "extract"
    /\ snapshot' = [snapshot EXCEPT
                       !.taken = TRUE,
                       !.elements = interactive_elements(snapshot.nodes)]
    /\ UNCHANGED <<pc, oracle, tracked, resolution, tasks, agentVars,
                   trackerVars, page, loopVars>>

NextExtract ==
    \/ LoadPage
    \/ TakeSnapshot

SpecExtract == InitExtract /\ [][NextExtract]_vars

---------------------------------------------------------------------------
(* Properties of run_task                                                  *)

\* run_task has returned or raised
Terminated == pc \in {"done", "raised"}

\* the number of failed steps at the end of h
RECURSIVE TrailingFailures(_)
TrailingFailures(h) ==
    IF h = <<>> \/ h[Len(h)].success THEN 0
    ELSE 1 + TrailingFailures(SubSeq(h, 1, Len(h) - 1))

\* the current iteration has executed its action and not logged it yet
Unlogged == dispatched > Len(history)

\* the number of Executing phases that failed in a row, up to now
FailedInARow ==
    IF Unlogged
    THEN (IF success THEN 0 ELSE TrailingFailures(history) + 1)
    ELSE TrailingFailures(history)

\* C1: whenever the oracle's action is Finish and no collaborator call
\* fails, run_task returns success = true and writes task_completed = true.
C1_FinishCompletes ==
    (pc = "done" /\ Get(action, "action") = "finish" /\ exc = NoneVal)
        => (result.success /\ trace.written /\ trace.task_completed)

C3_BoundedTermination ==
    /\ <>Terminated
    /\ [](/\ step_count <= MaxSteps
          /\ calls <= MaxSteps
          /\ dispatched <= MaxSteps
          /\ Len(history) <= MaxSteps
          /\ (trace.written /\ trace.total_steps = MaxSteps)
                => (~trace.task_completed /\ ~result.success))

\* a run that ended because the step index reached max_steps
C3_Witness ==
    /\ pc = "done"
    /\ trace.written
    /\ trace.total_steps = MaxSteps
    /\ Len(history) = MaxSteps
    /\ dispatched = MaxSteps

\* C4: an error raised while the step's action is handled never escapes the
\* step loop: unless a screenshot fails, every dispatched action has its
\* HistoryStep, a failed one with success = false and an error message.
C4_StepErrorsLogged ==
    (pc = "done" /\ exc # "screenshot failed")
        => /\ Len(history) = dispatched
           /\ \A i \in 1..Len(history) :
                 history[i].success <=> history[i].error = NoneVal

\* C5: a browser call that fails after Init has finished does not abort the
\* task as fatal.
C5_BrowserFailuresRecoverable ==
    (pc = "fatal" /\ exc = "screenshot failed") => current_url = NoneVal

\* C6: when the task aborts fatally, the HistorySteps accumulated before the
\* failing iteration are persisted in the trace.
C6_FatalKeepsHistory ==
    (pc = "done" /\ "error" \in result.keys /\ Len(history) > 0)
        => (trace.written /\ trace.steps = history)

\* C7: on every path run_task returns a result holding success, output_dir
\* and total_steps, and no exception reaches the caller.
C7_StructuredResult ==
    Terminated
        => (pc = "done"
            /\ {"success", "output_dir", "total_steps"} \subseteq result.keys)

---------------------------------------------------------------------------
(* Properties of NavigationAgent                                           *)

\* the fields of a dict or of a serialized action, whatever their order
Fields(d) == {d[i] : i \in 1..Len(d)}

\* the places of the last 5 entries of a ring
WindowOf(ring) == {i \in 1..Len(ring) : i > Len(ring) - 5}

\* how many of the last 5 entries of the ring have exactly the fields of a
Repeats(a, ring) ==
    Cardinality({i \in WindowOf(ring) : Fields(ring[i]) = Fields(a)})

\* C8: every action decide_next_action returns carries the discriminant
\* 'action', a response without it being replaced by the default Wait.
C8_ReturnsDiscriminant ==
    ask.asked > 0 => HasKey(ask.action, "action")

\* C9: the loop check flags a candidate exactly when an action of the same
\* fields (in any key order) occurs at least 2 times among the last 5
\* recorded actions.
C9_LoopCheck ==
    ask.screened => (ask.is_loop <=> Repeats(ask.candidate, ask.before) >= 2)

\* the 3rd submission of an action, its keys in another order, is flagged
C9_Witness ==
    /\ ask.screened
    /\ ask.is_loop
    /\ ask.candidate = ClickNextReordered
    /\ ask.before = <<ClickNext, ClickNext>>

\* the ring ends A, A, B for the candidate A and some other action B
AfterTwoAndAnother(a, ring) ==
    /\ Len(ring) >= 3
    /\ Fields(ring[Len(ring)]) # Fields(a)
    /\ Fields(ring[Len(ring) - 1]) = Fields(a)
    /\ Fields(ring[Len(ring) - 2]) = Fields(a)

\* C10 as claimed: after A, A and then a different B have been recorded, a
\* following submission of A is not flagged as a loop.
C10_DistinctActionResets ==
    (ask.screened /\ AfterTwoAndAnother(ask.candidate, ask.before))
        => ~ask.is_loop

\* C10 as amended: after A, A, B a following A is still flagged; A is not
\* flagged once the last 4 recorded actions all differ from it.
C10_WindowNotStreak ==
    /\ (ask.screened /\ AfterTwoAndAnother(ask.candidate, ask.before))
            => ask.is_loop
    /\ (/\ ask.screened
        /\ Len(ask.before) >= 4
        /\ \A i \in WindowOf(ask.before) :
              i > Len(ask.before) - 4
                  => Fields(ask.before[i]) # Fields(ask.candidate))
            => ~ask.is_loop

\* A, A and then four other actions recorded, and A submitted again
C10_Witness ==
    /\ ask.screened
    /\ ~ask.is_loop
    /\ Len(ask.before) = 6
    /\ Fields(ask.before[1]) = Fields(ask.candidate)
    /\ Fields(ask.before[2]) = Fields(ask.candidate)
    /\ \A i \in 3..6 : Fields(ask.before[i]) # Fields(ask.candidate)

\* C11: one decide_next_action call asks the oracle at most twice; it asks a
\* second time exactly when the first candidate was flagged as a loop, and a
\* second answer that parses is returned and recorded as it is, with no
\* further loop check, also when it is the flagged action again.
C11_AtMostTwoRequests ==
    /\ ask.asked \in 0..2
    /\ ask.asked = 2
          <=> (ask.screened /\ Repeats(ask.candidate, ask.before) >= 2)
    /\ (ask.asked = 2 /\ ask.second.kind = "json")
          => /\ ask.action = ask.second.obj
             /\ ask.ring # <<>>
             /\ Fields(ask.ring[Len(ask.ring)]) = Fields(ask.second.obj)

\* the second request answers with the flagged action, which is returned
C11_Witness ==
    /\ ask.asked = 2
    /\ ask.second.kind = "json"
    /\ ask.second.obj = ask.candidate
    /\ ask.action = ask.candidate
    /\ Repeats(ask.action, ask.before) >= 2

\* the last entry of a ring has the fields of a
EndsWith(ring, a) == ring # <<>> /\ Fields(ring[Len(ring)]) = Fields(a)

\* C12: whenever a candidate was screened by the loop check, that candidate
\* is what the call appends to the ring, whether it was flagged or not.
C12_ScreenedCandidateRecorded ==
    ask.screened
        => /\ EndsWith(ask.ring, ask.candidate)
           /\ Len(ask.before) < RingCap
                 => ask.ring = Append(ask.before, ask.ring[Len(ask.ring)])

\* C13: the ring never holds more than 10 entries, and an append to a ring
\* of 10 drops the oldest entry and keeps the others in their order, the new
\* entry last; an append to a shorter ring drops nothing.
C13_RingBoundedFifo ==
    /\ Len(recent_actions) <= 10
    /\ ask.recorded
          => /\ EndsWith(ask.ring, ask.action)
             /\ ask.ring =
                   IF Len(ask.before) = 10
                   THEN Append(Tail(ask.before), ask.ring[Len(ask.ring)])
                   ELSE Append(ask.before, ask.ring[Len(ask.ring)])

\* an action is appended to a full ring whose first two entries differ from
\* each other and whose last entry differs from the action
C13_Witness ==
    /\ ask.recorded
    /\ Len(ask.before) = 10
    /\ ask.before[1] # ask.before[2]
    /\ ~EndsWith(ask.before, ask.action)
    /\ recent_actions = ask.ring

---------------------------------------------------------------------------
(* Properties of PageStateTracker                                          *)

\* the identity of an element: its kind, text and input kind
Identity(e) == <<e.type, e.text, e.input_type>>

\* the identities of the elements of a list
Identities(elements) == {Identity(elements[i]) : i \in 1..Len(elements)}

\* what the latest compute_changes call was handed, and the call before it
LatestCall == tracked[Len(tracked)]
CallBefore == tracked[Len(tracked) - 1]

\* the identities the call before had and the latest call has not
Disappeared ==
    Identities(CallBefore.elements) \ Identities(LatestCall.elements)

\* the elements of a list whose identity is not in ids, in their order
RECURSIVE NotAmong(_, _)
NotAmong(elements, ids) ==
    IF elements = <<>> THEN <<>>
    ELSE (IF Identity(Head(elements)) \in ids THEN <<>>
          ELSE <<Head(elements)>>)
         \o NotAmong(Tail(elements), ids)

\* the number of removed descriptors of kind t in a returned dict
RemovedOfKind(diff, t) ==
    LET of_kind == {d \in DOMAIN diff.removed_elements : d.type = t}
    IN  BagCardinality([d \in of_kind |-> diff.removed_elements[d]])

\* a returned dict that reports nothing
EmptyDiff(diff) ==
    /\ diff.new_elements = <<>>
    /\ DOMAIN diff.removed_elements = {}
    /\ ~diff.url_changed
    /\ ~diff.has_changes

\* C14: a compute_changes call handed the same element list and the same URL
\* as the call before it reports no change at all, whatever came earlier.
C14_SecondCallIdle ==
    (Len(tracked) >= 2 /\ LatestCall = CallBefore) => EmptyDiff(page_changes)

\* the third call repeats the second, which had changed the whole page
C14_Witness ==
    /\ Len(tracked) = 3
    /\ tracked[3] = tracked[2]
    /\ tracked[2].elements = PasswordPage.elements
    /\ tracked[1].elements = HomePage.elements
    /\ tracked[1].url # tracked[2].url
    /\ ~page_changes.has_changes

\* the kinds of element get_interactive_elements reports
Kinds == {"button", "input", "link", "select"}

\* C15: from the second call on, new_elements are exactly the elements of
\* the latest list, in their order, whose identity (kind, text, input kind)
\* no element of the list of the call before has, and removed_elements hold
\* one descriptor, of the same kind, for each identity of the list before
\* that the latest list has not; lists of earlier calls play no part.
C15_DiffAgainstCallBefore ==
    Len(tracked) >= 2
        => /\ page_changes.new_elements =
                  NotAmong(LatestCall.elements,
                           Identities(CallBefore.elements))
           /\ \A t \in Kinds :
                  RemovedOfKind(page_changes, t) =
                      Cardinality({id \in Disappeared : id[1] = t})
           /\ \A d \in DOMAIN page_changes.removed_elements : d.type \in Kinds

\* the third call brings back an element that the first call had and the
\* second had not, and it is reported as new; another one is removed
C15_Witness ==
    /\ Len(tracked) = 3
    /\ \E i \in 1..Len(page_changes.new_elements) :
          /\ Identity(page_changes.new_elements[i])
                \in Identities(tracked[1].elements)
          /\ Identity(page_changes.new_elements[i])
                \notin Identities(tracked[2].elements)
    /\ DOMAIN page_changes.removed_elements # {}

\* the keys and the URL of the latest call are the tracker's previous state
Stored ==
    /\ previous_url = LatestCall.url
    /\ previous_elements =
          {element_key(LatestCall.elements[i]) :
              i \in 1..Len(LatestCall.elements)}

\* C16 as claimed: the first call on a fresh or reset tracker returns an
\* empty diff for any element list, and stores its keys and URL.
C16_FirstCallEmpty ==
    Len(tracked) = 1 => (EmptyDiff(page_changes) /\ Stored)

\* C16 as amended: the first call on a fresh or reset tracker reports every
\* element of its list as new (has_changes exactly when the list is not
\* empty), no removed element and url_changed = false, and stores the
\* list's keys and URL.
C16_FirstCallAllNew ==
    Len(tracked) = 1
        => /\ page_changes.new_elements = LatestCall.elements
           /\ DOMAIN page_changes.removed_elements = {}
           /\ ~page_changes.url_changed
           /\ page_changes.has_changes <=> LatestCall.elements # <<>>
           /\ Stored

\* the first call after a reset, on a list of three elements
C16_Witness ==
    /\ Len(tracked) = 1
    /\ calls = 2
    /\ LatestCall.elements = PasswordPage.elements
    /\ Len(page_changes.new_elements) = 3
    /\ page_changes.has_changes

\* C17: url_changed is true exactly when a call came before, since the
\* tracker was made or reset, and its URL differs from the latest call's.
C17_UrlChanged ==
    Len(tracked) >= 1
        => (page_changes.url_changed
              <=> (Len(tracked) >= 2 /\ CallBefore.url # LatestCall.url))

\* a second call, after a reset and a first call, with another URL
C17_Witness ==
    /\ Len(tracked) = 2
    /\ calls = 3
    /\ tracked[1].url # tracked[2].url
    /\ page_changes.url_changed

\* C18: the removed descriptors are exactly the kind and the full text of
\* each element that disappeared, whatever the text, a ":" in it included.
C18_RemovedRoundTrip ==
    Len(tracked) >= 2
        => DOMAIN page_changes.removed_elements =
              {[type |-> id[1], text |-> id[2]] : id \in Disappeared}

---------------------------------------------------------------------------
(* Properties of the steps of run_task                                     *)

\* the step logged last
LastStep == history[Len(history)]

\* C19: an element that was absent when a step was observed and present once
\* its action had settled (the step's elements_added) is listed under
\* new_elements in the diff that Observing of the next step computes and
\* hands to the oracle; the page does not change between the two.
C19_AppearedElementInNextDiff ==
    (pc = "decide" /\ history # <<>>)
        => \A i \in 1..Len(LastStep.elements_added) :
              \E j \in 1..Len(page_changes.new_elements) :
                 /\ page_changes.new_elements[j].type =
                       LastStep.elements_added[i].type
                 /\ page_changes.new_elements[j].text =
                       LastStep.elements_added[i].text

\* C20: the URL logged as "url" of a step is the URL logged as "url_after"
\* of the step before it.
C20_UrlChain ==
    \A i \in 2..Len(history) : history[i].url = history[i - 1].url_after

\* a run that returned without a fatal abort and in which a step changed
\* the URL and another step followed
C20_Witness ==
    /\ pc = "done"
    /\ exc = NoneVal
    /\ trace.written
    /\ \E i \in 2..Len(history) :
          /\ history[i - 1].url # history[i - 1].url_after
          /\ history[i].url = history[i - 1].url_after

---------------------------------------------------------------------------
(* Properties of click_by_text and fill_input                              *)

\* the attempts made so far by the call under way or last made
Attempts == resolution.attempts

\* the number of strategies the claims give click and fill resolution, and
\* the number of them the second pass repeats
Listed == IF resolution.role = "click" THEN 6 ELSE 7
Repeated == IF resolution.role = "click" THEN 3 ELSE 4

\* C21: the strategies are attempted in the listed order, 1, 2, 3, ...
\* in the first pass and again from 1 in the second; an attempt is made only
\* after every attempt before it has failed, and the first attempt that
\* works ends the call with success, no attempt following it.
C21_StrictOrder ==
    /\ \A i \in 1..Len(Attempts) :
          /\ Attempts[i].strategy = IF i <= Listed THEN i ELSE i - Listed
          /\ Attempts[i].pass = IF i <= Listed THEN 1 ELSE 2
          /\ i < Len(Attempts) => ~Attempts[i].ok
    /\ resolution.status = "returned"
          <=> (Attempts # <<>> /\ Attempts[Len(Attempts)].ok)

\* the exact-text and the substring strategy fail on a button that both
\* find, and the role-based strategy clicks it
C21_Witness ==
    /\ resolution.role = "click"
    /\ resolution.status = "returned"
    /\ Len(Attempts) = 3
    /\ Attempts[3].touched = "ok"
    /\ OkButton \in Located("click", 1, resolution.label, resolution.on)

\* C22: a cascade fails only after all its attempts failed: the 6 (click)
\* or 7 (fill) of the first pass when retry is off, and those and one more
\* pass over the first 3 (click) or 4 (fill) when retry is on; a call never
\* makes more than 9 (click) or 11 (fill) attempts.
C22_OneRetryPass ==
    /\ Len(Attempts) <= Listed + Repeated
    /\ (resolution.status = "raised" /\ resolution.error = "Could not find")
          => /\ \A i \in 1..Len(Attempts) : ~Attempts[i].ok
             /\ Len(Attempts) =
                   IF resolution.retry THEN Listed + Repeated ELSE Listed
    /\ \A i \in 1..Len(Attempts) :
          Attempts[i].pass = 2
              => (resolution.retry /\ Attempts[i].strategy <= Repeated)

\* fill_input with retry on fails after 11 attempts
C22_Witness ==
    /\ resolution.role = "fill"
    /\ resolution.retry
    /\ resolution.status = "raised"
    /\ Len(Attempts) = 11

\* the element of the page with the given id is an input of type password
IsPasswordInput(id) ==
    \E e \in resolution.on : e.id = id /\ e.input_type = "password"

\* C23 as claimed: strategy 7 of fill_input touches the page only when the
\* label contains 'password' in any case; for another label it touches
\* nothing and the cascade fills no password input at all.
C23_NoPasswordFilled ==
    resolution.role = "fill"
        => \A i \in 1..Len(Attempts) :
              /\ (Attempts[i].strategy = 7 /\ Attempts[i].touched # "none")
                    => ImpliesPassword(resolution.label)
              /\ ~ImpliesPassword(resolution.label)
                    => ~IsPasswordInput(Attempts[i].touched)

\* C23 as amended: strategy 7 touches the page only when the label contains
\* 'password' in any case, and then a visible password input; for another
\* label it touches nothing and fails, and a password input is filled only
\* by one of the strategies 1-6, whose locator found it under the label.
C23_FallbackOnlyForPasswordLabels ==
    resolution.role = "fill"
        => \A i \in 1..Len(Attempts) :
              /\ (Attempts[i].strategy = 7 /\ Attempts[i].touched # "none")
                    => /\ ImpliesPassword(resolution.label)
                       /\ IsPasswordInput(Attempts[i].touched)
              /\ (Attempts[i].strategy = 7
                    /\ ~ImpliesPassword(resolution.label))
                    => (~Attempts[i].ok /\ Attempts[i].touched = "none")
              /\ (~ImpliesPassword(resolution.label)
                    /\ IsPasswordInput(Attempts[i].touched))
                    => \E e \in resolution.on :
                          /\ e.id = Attempts[i].touched
                          /\ e.label = resolution.label
                          /\ Attempts[i].strategy \in e.by

\* the label "Email" on a page with a visible password input: strategy 7
\* is reached and touches nothing
C23_Witness ==
    /\ resolution.role = "fill"
    /\ resolution.label = <<"Email">>
    /\ PasswordField \in resolution.on
    /\ Len(Attempts) >= 7
    /\ Attempts[7].touched = "none"

---------------------------------------------------------------------------
(* Properties of execute_action and of the phases of a step                *)

\* the action lacks a field its kind requires
MissingField(a) ==
    \/ Get(a, "action") = "click" /\ Falsy(Get(a, "target_text"))
    \/ Get(a, "action") = "type"
          /\ (Falsy(Get(a, "target_field")) \/ Get(a, "text") = NoneVal)
    \/ Get(a, "action") = "press" /\ Falsy(Get(a, "key"))

ValidationErrors ==
    {"Click action requires 'target_text'",
     "Type action requires 'target_field' and 'text'",
     "Press action requires 'key'"}

\* the action's discriminant is none of the six kinds (or is absent)
UnknownKind(a) ==
    Get(a, "action")
        \notin {"click", "type", "press", "scroll", "wait", "finish"}

\* C24: dispatching a Click without target_text, a Type without
\* target_field or text, or a Press without key raises a validation error
\* before any click, fill or key press reaches the browser and leaves the
\* page as it was, and the step is logged with success = false.
C24_ValidationBeforeBrowser ==
    /\ [][(pc = "executing" /\ MissingField(action)
              /\ dispatched' = dispatched + 1)
            => /\ BrowserCall(action) = "none"
               /\ page' = page
               /\ ~success'
               /\ error_message' \in ValidationErrors]_vars
    /\ []((MissingField(action) /\ Unlogged)
            => pc \in {"settling", "logging"})
    /\ [][(pc = "logging" /\ MissingField(action) /\ history' # history)
            => ~history'[Len(history')].success]_vars

\* C25: an action whose discriminant is none of click, type, press, scroll,
\* wait, finish, or is absent, is rejected by the dispatcher with a
\* validation error and without a browser action, and is recorded as a
\* failed step that counts toward consecutive_failures.
C25_UnknownKindRejected ==
    /\ [][(pc = "executing" /\ UnknownKind(action)
              /\ dispatched' = dispatched + 1)
            => /\ BrowserCall(action) = "none"
               /\ page' = page
               /\ ~success'
               /\ error_message' = "Unknown action type"
               /\ consecutive_failures' = consecutive_failures + 1]_vars
    /\ []((UnknownKind(action) /\ Unlogged)
            => pc \in {"settling", "logging"})
    /\ [][(pc = "logging" /\ UnknownKind(action) /\ history' # history)
            => ~history'[Len(history')].success]_vars

\* C26: in a step whose action is Wait{seconds} the dispatcher does not
\* sleep, and the whole step sleeps exactly once, in Settling, for exactly
\* that many seconds.
C26_WaitSleepsOnce ==
    (pc = "logging" /\ Get(action, "action") = "wait")
        => slept = <<[by |-> "run_task",
                      seconds |-> GetOr(action, "seconds", "1")]>>

\* C27: after every Executing phase consecutive_failures is the length of
\* the trailing run of failed steps of the history being built, the step
\* just executed included (0 right after a success, the previous value + 1
\* right after a failure), and it never exceeds max_consecutive_failures.
C27_FailureCounter ==
    /\ [](consecutive_failures <= max_consecutive_failures)
    /\ [](Unlogged => consecutive_failures = FailedInARow)
    /\ [][(pc = "executing" /\ dispatched' = dispatched + 1)
            => consecutive_failures'
                  = (IF success' THEN 0 ELSE consecutive_failures + 1)]_vars
    /\ [][(pc = "logging" /\ history' # history)
            => consecutive_failures' = TrailingFailures(history')]_vars

\* a success right after two failed steps, and the counter back at 0
C27_Witness ==
    /\ pc = "settling"
    /\ success
    /\ TrailingFailures(history) >= 2
    /\ consecutive_failures = 0

\* C28: on every exit that is not fatal, the success flag run_task returns
\* equals the task_completed flag written to the trace, and both are true
\* exactly when some recorded HistoryStep has a Finish action.
C28_SuccessIsTaskCompleted ==
    (pc = "done" /\ "error" \notin result.keys)
        => /\ trace.written
           /\ result.success = trace.task_completed
           /\ result.success
                <=> \E i \in 1..Len(trace.steps) :
                       Get(trace.steps[i].action, "action") = "finish"

\* a run that recorded steps and ended on the oracle's Finish
C28_Witness ==
    /\ pc = "done"
    /\ "error" \notin result.keys
    /\ trace.written
    /\ Len(trace.steps) >= 2
    /\ Get(action, "action") = "finish"
    /\ ~result.success

\* C29: loop detection and page tracking are scoped to the task: when a
\* run_task call starts its work the ring of recorded actions is empty and
\* the tracker has no previous keys and no previous URL; from then on the
\* ring never holds more actions than the agent of the call was asked for, and the
\* first verdict of the call is that of an empty ring.
C29_TaskScoped ==
    /\ [](pc = "init"
            => /\ recent_actions = <<>>
               /\ previous_elements = {}
               /\ previous_url = NoneVal)
    /\ [](pc # "start" => Len(recent_actions) <= calls)
    /\ [](calls = 1 => ask.before = <<>>)

\* the second call starts with an empty ring and an empty tracker after a
\* first call whose last request left actions in the ring
C29_Witness ==
    /\ tasks = 2
    /\ pc = "init"
    /\ ask.ring # <<>>
    /\ recent_actions = <<>>
    /\ previous_elements = {}

\* C30: the trace is written at most once per run and only after the step
\* loop has ended; it holds the history as it then is, and no HistoryStep
\* is appended or changed once it has been written.
C30_TraceWrittenOnce ==
    /\ [][trace' # trace
            => /\ ~trace.written
               /\ pc = "ending"
               /\ trace'.written
               /\ trace'.steps = history]_vars
    /\ [][trace.written => (trace' = trace /\ history' = history)]_vars
    /\ [](trace.written => pc = "done")

\* a written trace of three steps
C30_Witness ==
    /\ pc = "done"
    /\ trace.written
    /\ Len(trace.steps) = 3
    /\ trace.steps = history

\* C31: every iteration that appends a HistoryStep also increments the step
\* index, so in every trace written total_steps is the number of
\* HistorySteps in steps, whichever way the loop ended.
C31_TotalStepsIsLength ==
    /\ trace.written => trace.total_steps = Len(trace.steps)
    /\ pc \in {"observe", "ending"} => step_count = Len(history)

---------------------------------------------------------------------------
(* Properties of get_interactive_elements                                  *)

\* C32: no list returned by get_interactive_elements holds two descriptors
\* with the same identity (kind, text, input kind), whatever the page holds.
C32_UniqueIdentities ==
    snapshot.taken
        => \A i, j \in 1..Len(snapshot.elements) :
              Identity(snapshot.elements[i]) = Identity(snapshot.elements[j])
                  => i = j

---------------------------------------------------------------------------
(* Further properties of run_task                                          *)

\* C33: consecutive_failures is changed by the Executing phase only:
\* Observing, Deciding (a second request to the oracle and a reply replaced
\* by the default wait included), Settling and Logging leave it as it is.
C33_CounterFrame ==
    [][/\ consecutive_failures' # consecutive_failures => pc = "executing"
       /\ pc \in {"observe", "decide", "settling", "logging"}
            => consecutive_failures' = consecutive_failures]_vars

\* after failed steps the oracle was asked a second time and its second
\* answer accepted, and the counter is still what it was
C33_Witness ==
    /\ pc = "executing"
    /\ ask.asked = 2
    /\ ask.recorded
    /\ consecutive_failures >= 2
    /\ consecutive_failures = TrailingFailures(history)

---------------------------------------------------------------------------
(* Further properties of NavigationAgent                                   *)

\* C34: every action decide_next_action returns, the default wait put in
\* the place of a reply that failed and an action salvaged from a malformed
\* reply included, has been appended to the ring of recorded actions.
C34_ReturnedActionsRecorded ==
    ask.asked > 0
        => /\ ask.recorded
           /\ EndsWith(ask.ring, ask.action)
           /\ ask.ring # ask.before

---------------------------------------------------------------------------
(* Properties of the history and of the browser's life                     *)

\* C35: the history is append-only with contiguous indices: the i-th
\* HistoryStep, counted from 0, has index i; an entry once appended is
\* never changed or removed; an iteration appends at most one entry.
C35_AppendOnlyHistory ==
    /\ [](\A i \in 1..Len(history) : history[i].step = i - 1)
    /\ [](Len(history) <= dispatched /\ Len(history) <= step_count + 1)
    /\ [][history' # history
            => /\ pc = "logging"
               /\ Len(history') = Len(history) + 1
               /\ SubSeq(history', 1, Len(history)) = history]_vars

\* three steps logged, the loop going on
C35_Witness ==
    /\ pc = "decide"
    /\ Len(history) = 3
    /\ history[3].step = 2
    /\ step_count = 3


\* C36: once the browser controller has been constructed, every exit of
\* run_task, the one through an error of the agent's construction included,
\* has closed the browser, exactly once, and no browser call follows the
\* close.
C36_BrowserClosedOnExit ==
    /\ []((Terminated /\ browser # "none") => browser = "closed")
    /\ [][browser = "closed"
            => /\ browser' = "closed"
               /\ page' = page
               /\ dispatched' = dispatched]_vars

---------------------------------------------------------------------------
(* Further properties of click_by_text and fill_input                      *)

\* the attempts of the call that looked for an element on the page
Queried == {i \in 1..Len(Attempts) : Attempts[i].queried}

\* C37: when the cascade fails, the last error carried by the exception it
\* raises is the error of the last attempt of the call, second pass
\* included, that queried the page; it is never the placeholder error of a
\* skipped strategy.
C37_LastUnderlyingError ==
    (resolution.status = "raised" /\ resolution.error = "Could not find")
        => /\ ~resolution.last_error.placeholder
           /\ \E i \in Queried :
                 /\ \A j \in Queried : j <= i
                 /\ resolution.last_error.strategy = Attempts[i].strategy
                 /\ resolution.last_error.pass = Attempts[i].pass

===========================================================================
